---- MODULE Spec2Model ----
(***************************************************************************)
(* Verification model of @shagital/atomic-lock.                            *)
(*                                                                         *)
(*   SpecMem   MemoryLockDriver: every driver operation on the in-process  *)
(*             map, with the clock advancing between operations.           *)
(*   SpecFile  FileLockDriver: concurrent callers whose filesystem calls   *)
(*             (exclusive create, read, unlink) interleave.                *)
(*   SpecLock  AtomicLock (coordinator and circuit breaker) in front of a  *)
(*             driver that may succeed, refuse or throw.                   *)
(*                                                                         *)
(* Times are milliseconds (Date.now()); TTLs are seconds, as in the code.  *)
(***************************************************************************)
EXTENDS Integers, Sequences, FiniteSets, TLC

\* ------------------------------------------------------------------ bounds

\* The clock advances at most MaxTicks times, one second each time.
MaxTicks == 2

\* expiryInSeconds * 1000
MsPerSecond == 1000

Keys == {"k1", "k2"}
Values == {"v1", "v2"}
TTLs == {-1, 0, 1}
KeyLists == {<< >>, <<"k1">>, <<"k1", "k2">>}

\* Callers of the file driver, and the calls they make between them.
Procs == {"p1", "p2"}
MaxCalls == 2
\* The clock advances at most MaxFileTicks times while they run.
MaxFileTicks == 1
FileTTLs == {0, 1}
FileKeyLists == {<< >>, <<"k1", "k2">>, <<"k2", "k1">>}

VARIABLES
  now,          \* Date.now()
  ret,          \* the call that returned last, with its result
  holders,      \* history: the acquisitions granted and not yet released
  locks,        \* MemoryLockDriver.locks
  relPending,   \* a MemoryLockDriver.releaseMultiple suspended at an await
  files,        \* FileLockDriver: the lock files of lockDir, by key
  calls,        \* FileLockDriver: each caller's call and its position in it
  callsLeft,    \* FileLockDriver: calls still to be made
  lockFailures, \* AtomicLock.lockFailures, in insertion order
  lastCleanup,  \* AtomicLock.lastCleanup
  inflight,     \* AtomicLock: each caller's tryAcquire awaiting the driver
  nextToken,    \* AtomicLock: the tokens generateLockValue has minted so far
  streak,       \* history: each key's run of consecutive driver exceptions
  maxFailureEntries  \* AtomicLock.maxFailureEntries

memVars == <<locks, relPending>>
fileVars == <<files, calls, callsLeft>>
lockVars == <<lockFailures, lastCleanup, inflight, nextToken, streak,
              maxFailureEntries>>
vars == <<now, ret, holders, locks, relPending, files, calls, callsLeft,
          lockFailures, lastCleanup, inflight, nextToken, streak,
          maxFailureEntries>>

\* ------------------------------------------------------- JS Map operations

MapHas(m, k) == k \in DOMAIN m

MapSet(m, k, v) == [x \in DOMAIN m \cup {k} |-> IF x = k THEN v ELSE m[x]]

MapDelete(m, k) == [x \in DOMAIN m \ {k} |-> m[x]]

EmptyMap == [x \in {} |-> 0]

RECURSIVE SeqToSet(_)
SeqToSet(s) == IF s = << >> THEN {} ELSE {Head(s)} \cup SeqToSet(Tail(s))

\* ------------------------------------------------------------- liveness

\* The data model's definition: a record is live iff now < expiresAt.
Live(rec, t) == t < rec.expiresAt

\* What is known of a key's record before a call, for the history in ret.
Had(m, k, t) ==
  IF ~MapHas(m, k) THEN "none"
  ELSE IF Live(m[k], t) THEN "live"
  ELSE IF m[k].expiresAt = t THEN "expiring"
  ELSE "expired"

\* --------------------------------------------------------- MemoryLockDriver

MemExpired_Inverted(m, k, t) == MapHas(m, k) /\ m[k].expiresAt > t

\* existing && existing.expiresAt < now
MemExpired(m, k, t) == MapHas(m, k) /\ m[k].expiresAt < t

MemDropExpired(m, k, t) == IF MemExpired(m, k, t) THEN MapDelete(m, k) ELSE m

LockData(value, ttl, t) ==
  [value |-> value, expiresAt |-> t + (ttl * MsPerSecond), createdAt |-> t]

MemTryAcquire_Extends(m, key, value, ttl, t) ==
  LET m1 == MemDropExpired(m, key, t)
  IN IF MapHas(m1, key)
       THEN [locks |-> [m1 EXCEPT ![key].expiresAt = t + (ttl * MsPerSecond)],
             result |-> FALSE]
       ELSE [locks |-> MapSet(m1, key, LockData(value, ttl, t)), result |-> TRUE]

MemTryAcquire_Overwrite(m, key, value, ttl, t) ==
  [locks |-> MapSet(m, key, LockData(value, ttl, t)), result |-> TRUE]

MemTryAcquire(m, key, value, ttl, t) ==
  LET m1 == MemDropExpired(m, key, t)
  IN IF MapHas(m1, key)
       THEN [locks |-> m1, result |-> FALSE]
       ELSE [locks |-> MapSet(m1, key, LockData(value, ttl, t)), result |-> TRUE]

RECURSIVE MemDropExpiredAll(_, _, _)
MemDropExpiredAll(m, keys, t) ==
  IF keys = << >> THEN m
  ELSE MemDropExpiredAll(MemDropExpired(m, Head(keys), t), Tail(keys), t)

RECURSIVE MemSetAll(_, _, _)
MemSetAll(m, keys, data) ==
  IF keys = << >> THEN m
  ELSE MemSetAll(MapSet(m, Head(keys), data), Tail(keys), data)

MemTryAcquireMultiple(m, keys, value, ttl, t) ==
  LET m1 == MemDropExpiredAll(m, keys, t)
  IN IF \E i \in 1..Len(keys) : MapHas(m1, keys[i])
       THEN [locks |-> m1, result |-> FALSE]
       ELSE [locks |-> MemSetAll(m1, keys, LockData(value, ttl, t)), result |-> TRUE]

MemRelease_AnyValue(m, key, value) ==
  IF MapHas(m, key)
    THEN [locks |-> MapDelete(m, key), result |-> TRUE]
    ELSE [locks |-> m, result |-> FALSE]

MemRelease(m, key, value) ==
  IF MapHas(m, key) /\ m[key].value = value
    THEN [locks |-> MapDelete(m, key), result |-> TRUE]
    ELSE [locks |-> m, result |-> FALSE]

MemExists(m, key, t) ==
  IF ~MapHas(m, key) THEN [locks |-> m, result |-> FALSE]
  ELSE IF m[key].expiresAt < t THEN [locks |-> MapDelete(m, key), result |-> FALSE]
  ELSE [locks |-> m, result |-> TRUE]

NoInfo == [key |-> "", value |-> "", expiresAt |-> 0, createdAt |-> 0]

MemGetLockInfo(m, key, t) ==
  IF ~MapHas(m, key) THEN [locks |-> m, result |-> NoInfo]
  ELSE IF m[key].expiresAt < t THEN [locks |-> MapDelete(m, key), result |-> NoInfo]
  ELSE [locks |-> m,
        result |-> [key |-> key, value |-> m[key].value,
                    expiresAt |-> m[key].expiresAt, createdAt |-> m[key].createdAt]]

MemCleanup(m, t) ==
  LET keep == {k \in DOMAIN m : ~(m[k].expiresAt < t)}
  IN [k \in keep |-> m[k]]

\* ------------------------------------------------------ history of holders

Grant(key, data) == [key |-> key, value |-> data.value, expiresAt |-> data.expiresAt]

\* A grant whose record is never live (TTL <= 0) makes nobody a holder.
Granted(keys, value, ttl, t) ==
  {g \in {Grant(k, LockData(value, ttl, t)) : k \in SeqToSet(keys)} : Live(g, t)}

Released(hs, key, value) == {h \in hs : ~(h.key = key /\ h.value = value)}

LiveHolders(k) == {h \in holders : h.key = k /\ Live(h, now)}

\* ------------------------------------------------------------ clock

\* The clock reads Epoch when the model starts.
Epoch == 2 * MsPerSecond

TickLimit == Epoch + (MaxTicks * MsPerSecond)

\* Date.now() has advanced by ms
Elapse(ms) ==
  /\ now' = now + ms
  /\ ret' = [op |-> "tick"]
  /\ holders' = {h \in holders : Live(h, now')}
  /\ UNCHANGED <<memVars, fileVars, lockVars>>

Tick == now + MsPerSecond <= TickLimit /\ Elapse(MsPerSecond)

\* ------------------------------------------------- SpecMem: the operations

NoRelease == [active |-> FALSE]

MemTryAcquireCall ==
  \E key \in Keys, value \in Values, ttl \in TTLs :
    LET r == MemTryAcquire(locks, key, value, ttl, now)
    IN /\ locks' = r.locks
       /\ ret' = [op |-> "tryAcquire", key |-> key, value |-> value,
                  had |-> Had(locks, key, now), result |-> r.result]
       /\ holders' = IF r.result THEN holders \cup Granted(<<key>>, value, ttl, now)
                     ELSE holders
       /\ UNCHANGED <<now, relPending, fileVars, lockVars>>

MemTryAcquireMultipleCall ==
  \E keys \in KeyLists, value \in Values, ttl \in TTLs :
    LET r == MemTryAcquireMultiple(locks, keys, value, ttl, now)
    IN /\ locks' = r.locks
       /\ ret' = [op |-> "tryAcquireMultiple", keys |-> keys, value |-> value,
                  result |-> r.result]
       /\ holders' = IF r.result THEN holders \cup Granted(keys, value, ttl, now)
                     ELSE holders
       /\ UNCHANGED <<now, relPending, fileVars, lockVars>>

MemReleaseCall ==
  \E key \in Keys, value \in Values :
    LET r == MemRelease(locks, key, value)
    IN /\ locks' = r.locks
       /\ ret' = [op |-> "release", key |-> key, value |-> value,
                  had |-> Had(locks, key, now), result |-> r.result]
       /\ holders' = IF r.result THEN Released(holders, key, value) ELSE holders
       /\ UNCHANGED <<now, relPending, fileVars, lockVars>>

\* releaseMultiple awaits each release: the first release runs with the call,
\* every later one (and the return) after a suspension.
MemReleaseMultipleCall ==
  /\ ~relPending.active
  /\ \E keys \in KeyLists, value \in Values :
       IF keys = << >>
         THEN /\ ret' = [op |-> "releaseMultiple", keys |-> keys, value |-> value,
                         result |-> 0]
              /\ UNCHANGED <<locks, relPending, holders>>
         ELSE LET r == MemRelease(locks, Head(keys), value)
              IN /\ locks' = r.locks
                 /\ holders' = IF r.result THEN Released(holders, Head(keys), value)
                               ELSE holders
                 /\ relPending' = [active |-> TRUE, keys |-> keys, rest |-> Tail(keys),
                                   value |-> value,
                                   released |-> IF r.result THEN 1 ELSE 0]
                 /\ ret' = [op |-> "await"]
  /\ UNCHANGED <<now, fileVars, lockVars>>

MemReleaseMultipleResume ==
  /\ relPending.active
  /\ IF relPending.rest = << >>
       THEN /\ ret' = [op |-> "releaseMultiple", keys |-> relPending.keys,
                       value |-> relPending.value, result |-> relPending.released]
            /\ relPending' = NoRelease
            /\ UNCHANGED <<locks, holders>>
       ELSE LET r == MemRelease(locks, Head(relPending.rest), relPending.value)
            IN /\ locks' = r.locks
               /\ holders' = IF r.result
                               THEN Released(holders, Head(relPending.rest), relPending.value)
                               ELSE holders
               /\ relPending' = [relPending EXCEPT
                                   !.rest = Tail(relPending.rest),
                                   !.released = IF r.result THEN @ + 1 ELSE @]
               /\ ret' = [op |-> "await"]
  /\ UNCHANGED <<now, fileVars, lockVars>>

MemExistsCall ==
  \E key \in Keys :
    LET r == MemExists(locks, key, now)
    IN /\ locks' = r.locks
       /\ ret' = [op |-> "exists", key |-> key, had |-> Had(locks, key, now),
                  result |-> r.result]
       /\ UNCHANGED <<now, relPending, holders, fileVars, lockVars>>

MemGetLockInfoCall ==
  \E key \in Keys :
    LET r == MemGetLockInfo(locks, key, now)
    IN /\ locks' = r.locks
       /\ ret' = [op |-> "getLockInfo", key |-> key, had |-> Had(locks, key, now),
                  result |-> r.result]
       /\ UNCHANGED <<now, relPending, holders, fileVars, lockVars>>

MemCleanupCall ==
  /\ locks' = MemCleanup(locks, now)
  /\ ret' = [op |-> "cleanup"]
  /\ UNCHANGED <<now, relPending, holders, fileVars, lockVars>>

\* The options the lock is constructed with.
CircuitBreakerThreshold == 2
CircuitBreakerResetTime == 2000
MaxFailureEntries == 2

Idle == [pc |-> "idle"]

Callers == {"c1", "c2"}

NotCalling == [active |-> FALSE]

NoStreak == [n |-> 0, chained |-> 0, last |-> 0]

\* AtomicLock as constructed, with nobody calling it.
LockIdle ==
  /\ lockFailures = << >>
  /\ lastCleanup = Epoch
  /\ inflight = [c \in Callers |-> NotCalling]
  /\ nextToken = 0
  /\ streak = [k \in Keys |-> NoStreak]
  /\ maxFailureEntries = MaxFailureEntries

InitMem ==
  /\ now = Epoch
  /\ ret = [op |-> "init"]
  /\ holders = {}
  /\ locks = EmptyMap
  /\ relPending = NoRelease
  /\ files = EmptyMap
  /\ calls = [p \in Procs |-> Idle]
  /\ callsLeft = 0
  /\ LockIdle

NextMem ==
  \/ Tick
  \/ MemTryAcquireCall
  \/ MemTryAcquireMultipleCall
  \/ MemReleaseCall
  \/ MemReleaseMultipleCall
  \/ MemReleaseMultipleResume
  \/ MemExistsCall
  \/ MemGetLockInfoCall
  \/ MemCleanupCall

SpecMem == InitMem /\ [][NextMem]_vars

\* ------------------------------------------------------- claims on SpecMem

\* C1: with the memory driver no key ever has two holders at once: every
\* acquisition granted on a key and neither released nor expired is the only one.
C1_MemOneHolder == \A k \in Keys : Cardinality(LiveHolders(k)) <= 1

\* C1 witness: a second acquisition of a key succeeded after the first one's
\* record had expired, and the new caller is the key's one live holder.
C1_Witness ==
  /\ ret.op = "tryAcquire"
  /\ ret.result = TRUE
  /\ ret.had = "expired"
  /\ Cardinality(LiveHolders(ret.key)) = 1

\* C3 (as claimed): release(key, token) returns true iff the key has a live
\* record whose value is token, and then removes exactly that record; otherwise
\* it returns false and changes no record.
C3_ReleaseIffLiveMatch ==
  [][ret'.op = "release" =>
       LET k == ret'.key
           liveMatch == /\ MapHas(locks, k)
                        /\ locks[k].value = ret'.value
                        /\ Live(locks[k], now)
       IN /\ ret'.result = liveMatch
          /\ locks' = IF liveMatch THEN MapDelete(locks, k) ELSE locks]_vars

C6_BatchIffNoLiveRecord ==
  [][ret'.op = "tryAcquireMultiple" =>
       LET keys == ret'.keys
           idx == 1..Len(keys)
           free == \A i \in idx : ~(MapHas(locks, keys[i]) /\ Live(locks[keys[i]], now))
       IN /\ ret'.result = free
          /\ free =>
               \A i \in idx :
                 /\ MapHas(locks', keys[i])
                 /\ locks'[keys[i]].value = ret'.value
                 /\ locks'[keys[i]].expiresAt = locks'[keys[1]].expiresAt
          /\ ~free =>
               /\ \A i \in idx :
                    MapHas(locks', keys[i]) =>
                      MapHas(locks, keys[i]) /\ locks'[keys[i]] = locks[keys[i]]
               /\ \A k \in DOMAIN locks :
                    Live(locks[k], now) => MapHas(locks', k) /\ locks'[k] = locks[k]
          /\ keys = << >> => ret'.result = TRUE /\ locks' = locks]_vars

\* ---------------------------------------------------------- FileLockDriver

\* readLockFile's null: no file, or content that JSON.parse rejects.
NoFileLock == [written |-> FALSE]

\* A file just created by caller p's exclusive open, nothing written yet.
Created(p) == [written |-> FALSE, by |-> p]

FileData(value, ttl, t) ==
  [written |-> TRUE, value |-> value,
   expiresAt |-> t + (ttl * MsPerSecond), createdAt |-> t]

\* getLockPath: the keys of the model hold only characters of [a-zA-Z0-9-_] and
\* are shorter than MAX_FILENAME_LENGTH, so each is its own file name.
LockPath(key) == key

ReadLockFile(f, path) ==
  IF MapHas(f, path) /\ f[path].written THEN f[path] ELSE NoFileLock

\* The write that follows an exclusive open goes to the file the caller opened:
\* it reaches the directory entry only while that entry is still this file.
WriteOpened(f, path, p, data) ==
  IF MapHas(f, path) /\ f[path] = Created(p) THEN MapSet(f, path, data) ELSE f

Returned(c, result) ==
  [pc |-> "done", op |-> c.op, key |-> c.key, keys |-> c.keys,
   value |-> c.value, result |-> result]

\* Each caller acquires with a token of its own.
TokenOf(p) == IF p = "p1" THEN "v1" ELSE "v2"

CanCall(p) == calls[p].pc \in {"idle", "done"} /\ callsLeft > 0

GrantedLive(keys, data, t) ==
  {g \in {Grant(k, data) : k \in SeqToSet(keys)} : Live(g, t)}

\* ---- tryAcquire

FileTryAcquireCall(p) ==
  /\ CanCall(p)
  /\ \E key \in Keys, ttl \in FileTTLs :
       calls' = [calls EXCEPT ![p] =
                   [pc |-> "ta_create", op |-> "tryAcquire", key |-> key,
                    keys |-> <<key>>, value |-> TokenOf(p), ttl |-> ttl,
                    data |-> FileData(TokenOf(p), ttl, now)]]
  /\ callsLeft' = callsLeft - 1
  /\ ret' = [op |-> "fs"]
  /\ UNCHANGED <<now, holders, memVars, files, lockVars>>

\* fs.writeFile(lockPath, ..., { flag: 'wx' }): the exclusive open
TaCreate(p) ==
  LET c == calls[p]
      path == LockPath(c.key)
  IN /\ c.pc = "ta_create"
     /\ IF MapHas(files, path)
          THEN /\ calls' = [calls EXCEPT ![p].pc = "ta_read"]
               /\ UNCHANGED files
          ELSE /\ files' = MapSet(files, path, Created(p))
               /\ calls' = [calls EXCEPT ![p].pc = "ta_write"]
     /\ ret' = [op |-> "fs"]
     /\ UNCHANGED <<now, holders, memVars, callsLeft, lockVars>>

\* fs.writeFile: the content is written and tryAcquire returns true
TaWrite(p) ==
  LET c == calls[p]
      path == LockPath(c.key)
  IN /\ c.pc = "ta_write"
     /\ files' = WriteOpened(files, path, p, c.data)
     /\ calls' = [calls EXCEPT ![p] = Returned(c, TRUE)]
     /\ holders' = holders \cup GrantedLive(c.keys, c.data, now)
     /\ ret' = [op |-> "fs"]
     /\ UNCHANGED <<now, memVars, callsLeft, lockVars>>

TaReadExpired(existing, t) == existing.written /\ existing.expiresAt < t

\* EEXIST: readLockFile, then the expiry test
TaRead(p) ==
  LET c == calls[p]
      existing == ReadLockFile(files, LockPath(c.key))
  IN /\ c.pc = "ta_read"
     /\ calls' = [calls EXCEPT ![p] =
                    IF TaReadExpired(existing, now)
                      THEN [c EXCEPT !.pc = "ta_unlink"]
                      ELSE Returned(c, FALSE)]
     /\ ret' = [op |-> "fs"]
     /\ UNCHANGED <<now, holders, memVars, files, callsLeft, lockVars>>

\* fs.unlink(lockPath), then the recursive tryAcquire; ENOENT is caught and
\* tryAcquire returns false
TaUnlink(p) ==
  LET c == calls[p]
      path == LockPath(c.key)
  IN /\ c.pc = "ta_unlink"
     /\ IF MapHas(files, path)
          THEN /\ files' = MapDelete(files, path)
               /\ calls' = [calls EXCEPT ![p] =
                              [c EXCEPT !.pc = "ta_create",
                                        !.data = FileData(c.value, c.ttl, now)]]
          ELSE /\ calls' = [calls EXCEPT ![p] = Returned(c, FALSE)]
               /\ UNCHANGED files
     /\ ret' = [op |-> "fs"]
     /\ UNCHANGED <<now, holders, memVars, callsLeft, lockVars>>

\* ---- tryAcquireMultiple

FileTryAcquireMultipleCall(p) ==
  /\ CanCall(p)
  /\ \E keys \in FileKeyLists, ttl \in FileTTLs :
       LET c == [pc |-> "am_check", op |-> "tryAcquireMultiple", key |-> "",
                 keys |-> keys, value |-> TokenOf(p), ttl |-> ttl,
                 data |-> FileData(TokenOf(p), ttl, now), i |-> 1, acquired |-> << >>]
       IN calls' = [calls EXCEPT ![p] =
                      IF keys = << >> THEN Returned(c, TRUE) ELSE c]
  /\ callsLeft' = callsLeft - 1
  /\ ret' = [op |-> "fs"]
  /\ UNCHANGED <<now, holders, memVars, files, lockVars>>

AmActive(existing, t) == existing.written /\ existing.expiresAt >= t

\* the check loop: readLockFile of one path
AmCheck(p) ==
  LET c == calls[p]
      existing == ReadLockFile(files, LockPath(c.keys[c.i]))
  IN /\ c.pc = "am_check"
     /\ calls' = [calls EXCEPT ![p] =
                    IF AmActive(existing, now) THEN Returned(c, FALSE)
                    ELSE IF c.i < Len(c.keys) THEN [c EXCEPT !.i = c.i + 1]
                    ELSE [c EXCEPT !.pc = "am_create", !.i = 1]]
     /\ ret' = [op |-> "fs"]
     /\ UNCHANGED <<now, holders, memVars, files, callsLeft, lockVars>>

\* the create loop: the exclusive open of one path; EEXIST starts the rollback
AmCreate(p) ==
  LET c == calls[p]
      path == LockPath(c.keys[c.i])
  IN /\ c.pc = "am_create"
     /\ IF MapHas(files, path)
          THEN /\ calls' = [calls EXCEPT ![p] =
                              IF c.acquired = << >> THEN Returned(c, FALSE)
                              ELSE [c EXCEPT !.pc = "am_rollback"]]
               /\ UNCHANGED files
          ELSE /\ files' = MapSet(files, path, Created(p))
               /\ calls' = [calls EXCEPT ![p].pc = "am_write"]
     /\ ret' = [op |-> "fs"]
     /\ UNCHANGED <<now, holders, memVars, callsLeft, lockVars>>

\* the create loop: the content is written and the path is pushed on acquired
AmWrite(p) ==
  LET c == calls[p]
      path == LockPath(c.keys[c.i])
      last == c.i = Len(c.keys)
  IN /\ c.pc = "am_write"
     /\ files' = WriteOpened(files, path, p, c.data)
     /\ calls' = [calls EXCEPT ![p] =
                    IF last THEN Returned(c, TRUE)
                    ELSE [c EXCEPT !.pc = "am_create", !.i = c.i + 1,
                                   !.acquired = Append(c.acquired, path)]]
     /\ holders' = IF last THEN holders \cup GrantedLive(c.keys, c.data, now)
                   ELSE holders
     /\ ret' = [op |-> "fs"]
     /\ UNCHANGED <<now, memVars, callsLeft, lockVars>>

\* the rollback: fs.unlink of one acquired path, errors ignored
AmRollback(p) ==
  LET c == calls[p]
      path == Head(c.acquired)
  IN /\ c.pc = "am_rollback"
     /\ files' = IF MapHas(files, path) THEN MapDelete(files, path) ELSE files
     /\ calls' = [calls EXCEPT ![p] =
                    IF Tail(c.acquired) = << >> THEN Returned(c, FALSE)
                    ELSE [c EXCEPT !.acquired = Tail(c.acquired)]]
     /\ ret' = [op |-> "fs"]
     /\ UNCHANGED <<now, holders, memVars, callsLeft, lockVars>>

\* ---- release

FileReleaseCall(p) ==
  /\ CanCall(p)
  /\ \E key \in Keys, value \in Values :
       calls' = [calls EXCEPT ![p] =
                   [pc |-> "rl_read", op |-> "release", key |-> key,
                    keys |-> <<key>>, value |-> value]]
  /\ callsLeft' = callsLeft - 1
  /\ ret' = [op |-> "fs"]
  /\ UNCHANGED <<now, holders, memVars, files, lockVars>>

RlMatches(existing, value) == existing.written /\ existing.value = value

\* readLockFile, then the comparison with lockValue
RlRead(p) ==
  LET c == calls[p]
      existing == ReadLockFile(files, LockPath(c.key))
  IN /\ c.pc = "rl_read"
     /\ calls' = [calls EXCEPT ![p] =
                    IF RlMatches(existing, c.value)
                      THEN [c EXCEPT !.pc = "rl_unlink"]
                      ELSE Returned(c, FALSE)]
     /\ ret' = [op |-> "fs"]
     /\ UNCHANGED <<now, holders, memVars, files, callsLeft, lockVars>>

\* fs.unlink(lockPath); ENOENT is caught and release returns false
RlUnlink(p) ==
  LET c == calls[p]
      path == LockPath(c.key)
  IN /\ c.pc = "rl_unlink"
     /\ IF MapHas(files, path)
          THEN /\ files' = MapDelete(files, path)
               /\ calls' = [calls EXCEPT ![p] = Returned(c, TRUE)]
               /\ holders' = Released(holders, c.key, c.value)
          ELSE /\ calls' = [calls EXCEPT ![p] = Returned(c, FALSE)]
               /\ UNCHANGED <<files, holders>>
     /\ ret' = [op |-> "fs"]
     /\ UNCHANGED <<now, memVars, callsLeft, lockVars>>

\* ---- SpecFile

\* A lock file left in lockDir by an earlier holder: expired before Epoch.
StaleDir == MapSet(EmptyMap, LockPath("k1"), FileData("v1", 1, 0))

InitFile ==
  /\ now = Epoch
  /\ ret = [op |-> "init"]
  /\ holders = {}
  /\ locks = EmptyMap
  /\ relPending = NoRelease
  /\ files \in {EmptyMap, StaleDir}
  /\ calls = [p \in Procs |-> Idle]
  /\ callsLeft = MaxCalls
  /\ LockIdle

FileTick == now + MsPerSecond <= Epoch + (MaxFileTicks * MsPerSecond) /\ Elapse(MsPerSecond)

NextFile ==
  \/ FileTick
  \/ \E p \in Procs :
       \/ FileTryAcquireCall(p)
       \/ TaCreate(p)
       \/ TaWrite(p)
       \/ TaRead(p)
       \/ TaUnlink(p)
       \/ FileTryAcquireMultipleCall(p)
       \/ AmCheck(p)
       \/ AmCreate(p)
       \/ AmWrite(p)
       \/ AmRollback(p)
       \/ FileReleaseCall(p)
       \/ RlRead(p)
       \/ RlUnlink(p)

SpecFile == InitFile /\ [][NextFile]_vars

\* ------------------------------------------------------ claims on SpecFile

\* Every caller that has called so far is in (or has finished) its first call,
\* and that call is op.
FirstCallsAre(op) ==
  /\ MaxCalls - callsLeft = Cardinality({p \in Procs : calls[p].pc # "idle"})
  /\ \A p \in Procs : calls[p].pc # "idle" => calls[p].op = op

Winners == {p \in Procs : calls[p].pc = "done" /\ calls[p].result = TRUE}

\* C2 (as claimed): while the callers of the file driver run nothing but
\* tryAcquire, with their filesystem steps interleaved and the key possibly
\* starting with an expired lock file, no key has two live holders.
C2_FileOneHolder ==
  FirstCallsAre("tryAcquire") => \A k \in Keys : Cardinality(LiveHolders(k)) <= 1

\* C4 (as claimed): the unlink of release(key, token) never removes a lock
\* record whose stored value differs from token.
C4_ReleaseDeletesOwnRecord ==
  [][\A p \in Procs :
       (/\ calls[p].pc = "rl_unlink"
        /\ calls'[p].pc = "done"
        /\ calls'[p].result = TRUE
        /\ ReadLockFile(files, LockPath(calls[p].key)).written) =>
         ReadLockFile(files, LockPath(calls[p].key)).value = calls[p].value]_vars

\* No lock file predates the callers: every key was free when they started.
StartedFree == \A path \in DOMAIN files :
                 files[path].written => files[path].createdAt >= Epoch

\* C7 (as claimed): when the callers each run one tryAcquireMultiple on
\* overlapping lists of keys that were free, exactly one of the calls returns true.
C7_BatchExactlyOneWinner ==
  (/\ FirstCallsAre("tryAcquireMultiple")
   /\ StartedFree
   /\ \A p \in Procs : calls[p].pc = "done"
   /\ \A p, q \in Procs : SeqToSet(calls[p].keys) \cap SeqToSet(calls[q].keys) # {})
    => Cardinality(Winners) = 1

\* C8 (as claimed): a tryAcquireMultiple that does not succeed never has a
\* record of its own on any key: when it has failed and is about to roll back,
\* none of the files it created is there.
C8_FailedBatchLeftNothing ==
  \A p \in Procs :
    calls[p].pc = "am_rollback" =>
      \A i \in 1..Len(calls[p].acquired) :
        ReadLockFile(files, calls[p].acquired[i]) # calls[p].data

\* --------------------------------------------------------------- AtomicLock

\* The calls that reach the driver, and the clock ticks, of one run.
MaxTokens == 3
MaxLockTicks == 3

\* options.expiryInSeconds
LockTTLs == {1}

\* now - this.lastCleanup > 60000
SweepInterval == 60000

\* Array.from(this.lockFailures.keys()).slice(0, 100)
EvictBatch == 100

\* this.lockFailures.get(key): the position of the key's record, 0 if none
FailureIndex(F, key) ==
  IF \E i \in 1..Len(F) : F[i].key = key
    THEN CHOOSE i \in 1..Len(F) : F[i].key = key
    ELSE 0

\* this.lockFailures.delete(key)
FailureDelete_Keeps(F, key) == F

FailureDelete(F, key) == SelectSeq(F, LAMBDA f : f.key # key)

IsCircuitOpen_OverThreshold(F, key, t) ==
  LET i == FailureIndex(F, key)
  IN /\ i # 0
     /\ F[i].count > CircuitBreakerThreshold
     /\ (t - F[i].lastFailure) < CircuitBreakerResetTime

IsCircuitOpen_NoWindow(F, key, t) ==
  LET i == FailureIndex(F, key)
  IN i # 0 /\ F[i].count >= CircuitBreakerThreshold

IsCircuitOpen(F, key, t) ==
  LET i == FailureIndex(F, key)
  IN /\ i # 0
     /\ F[i].count >= CircuitBreakerThreshold
     /\ (t - F[i].lastFailure) < CircuitBreakerResetTime

CleanupFailureRecords_DropsAll(F, t) == << >>

CleanupFailureRecords(F, t) ==
  SelectSeq(F, LAMBDA f : ~(t - f.lastFailure > CircuitBreakerResetTime))

EvictOldest_Never(F) == F

\* the oldest keys, up to EvictBatch of them, are deleted when the map is full
EvictOldest(F) ==
  IF Len(F) >= maxFailureEntries
    THEN IF Len(F) > EvictBatch THEN SubSeq(F, EvictBatch + 1, Len(F)) ELSE << >>
    ELSE F

Upsert_Global(F, key, t) ==
  LET i == FailureIndex(F, key)
      G == [j \in 1..Len(F) |-> [F[j] EXCEPT !.count = F[j].count + 1]]
  IN IF i # 0
       THEN [G EXCEPT ![i] =
               [key |-> key,
                count |-> IF t - F[i].lastFailure > CircuitBreakerResetTime
                            THEN 1 ELSE F[i].count + 1,
                lastFailure |-> t]]
       ELSE Append(G, [key |-> key, count |-> 1, lastFailure |-> t])

Upsert_Refreshes(F, key, t) ==
  LET i == FailureIndex(F, key)
  IN IF i # 0
       THEN Append(SelectSeq(F, LAMBDA f : f.key # key),
                   [key |-> key,
                    count |-> IF t - F[i].lastFailure > CircuitBreakerResetTime
                                THEN 1 ELSE F[i].count + 1,
                    lastFailure |-> t])
       ELSE Append(F, [key |-> key, count |-> 1, lastFailure |-> t])

Upsert_AlwaysIncrement(F, key, t) ==
  LET i == FailureIndex(F, key)
  IN IF i # 0
       THEN [F EXCEPT ![i] =
               [key |-> key, count |-> F[i].count + 1, lastFailure |-> t]]
       ELSE Append(F, [key |-> key, count |-> 1, lastFailure |-> t])

Upsert_ResetAtWindow(F, key, t) ==
  LET i == FailureIndex(F, key)
  IN IF i # 0
       THEN [F EXCEPT ![i] =
               [key |-> key,
                count |-> IF t - F[i].lastFailure >= CircuitBreakerResetTime
                            THEN 1 ELSE F[i].count + 1,
                lastFailure |-> t]]
       ELSE Append(F, [key |-> key, count |-> 1, lastFailure |-> t])

Upsert(F, key, t) ==
  LET i == FailureIndex(F, key)
  IN IF i # 0
       THEN [F EXCEPT ![i] =
               [key |-> key,
                count |-> IF t - F[i].lastFailure > CircuitBreakerResetTime
                            THEN 1 ELSE F[i].count + 1,
                lastFailure |-> t]]
       ELSE Append(F, [key |-> key, count |-> 1, lastFailure |-> t])

RecordLockFailure(F, cleaned, key, t) ==
  LET sweep == t - cleaned > SweepInterval
      F1 == IF sweep THEN CleanupFailureRecords(F, t) ELSE F
  IN [failures |-> Upsert(EvictOldest(F1), key, t),
      lastCleanup |-> IF sweep THEN t ELSE cleaned]

\* history: the key's record is among those a failure recorded now would evict
Evicts(F, cleaned, key, t) ==
  LET F1 == IF t - cleaned > SweepInterval THEN CleanupFailureRecords(F, t) ELSE F
  IN FailureIndex(F1, key) # 0 /\ FailureIndex(EvictOldest(F1), key) = 0

\* failure?.count ?? 0
FailureCount(F, key) ==
  LET i == FailureIndex(F, key)
  IN IF i = 0 THEN 0 ELSE F[i].count

\* tryAcquire: what the caller gets when the driver has answered; 0 is null
TryAcquireOutcome_Rethrows(outcome, token) ==
  [thrown |-> (outcome = "threw"),
   result |-> IF outcome = "acquired" THEN token ELSE 0]

TryAcquireOutcome(outcome, token) ==
  [thrown |-> FALSE,
   result |-> IF outcome = "acquired" THEN token ELSE 0]

OnCircuitOpen_Records(F, key, t) == Upsert(F, key, t)

\* the gate of tryAcquire on an open breaker: `return null`, and the failure
\* records stay as they are
OnCircuitOpen(F, key, t) == F

GenerateLockValue_Constant(minted) == 1

\* generateLockValue: uuidv4(), a string of 36 characters that no earlier call
\* returned. The tokens are numbered in the order they are minted; 0 stands for
\* null, the answer that carries no token.
GenerateLockValue(minted) == minted + 1

\* tryAcquire up to the await: the gate, the token, the call of the driver.
\* The driver is the memory driver, or any driver that throws.
LockTryAcquireBegin(c) ==
  /\ ~inflight[c].active
  /\ \E key \in Keys, ttl \in LockTTLs :
       IF IsCircuitOpen(lockFailures, key, now)
         THEN /\ ret' = [op |-> "tryAcquire", key |-> key, outcome |-> "open",
                         before |-> FailureCount(lockFailures, key),
                         thrown |-> FALSE, result |-> 0]
              /\ lockFailures' = OnCircuitOpen(lockFailures, key, now)
              /\ UNCHANGED <<locks, inflight, nextToken>>
         ELSE /\ nextToken < MaxTokens
              /\ nextToken' = GenerateLockValue(nextToken)
              /\ ret' = [op |-> "await"]
              /\ \/ LET r == MemTryAcquire(locks, key, nextToken', ttl, now)
                    IN /\ locks' = r.locks
                       /\ inflight' = [inflight EXCEPT ![c] =
                            [active |-> TRUE, key |-> key, token |-> nextToken',
                             outcome |-> IF r.result THEN "acquired" ELSE "refused"]]
                 \/ /\ inflight' = [inflight EXCEPT ![c] =
                            [active |-> TRUE, key |-> key, token |-> nextToken',
                             outcome |-> "threw"]]
                    /\ UNCHANGED locks
              /\ UNCHANGED lockFailures
  /\ UNCHANGED <<now, holders, relPending, fileVars, lastCleanup, streak,
                 maxFailureEntries>>

\* tryAcquire after the await
LockTryAcquireEnd(c) ==
  LET call == inflight[c]
      k == call.key
      rec == RecordLockFailure(lockFailures, lastCleanup, k, now)
      chain == /\ streak[k].chained > 0
               /\ now - streak[k].last <= CircuitBreakerResetTime
               /\ ~Evicts(lockFailures, lastCleanup, k, now)
  IN /\ call.active
     /\ inflight' = [inflight EXCEPT ![c] = NotCalling]
     /\ IF call.outcome = "acquired"
          THEN /\ lockFailures' = FailureDelete(lockFailures, k)
               /\ streak' = [streak EXCEPT ![k] = NoStreak]
               /\ UNCHANGED lastCleanup
          ELSE IF call.outcome = "refused"
          THEN /\ streak' = [streak EXCEPT ![k] = NoStreak]
               /\ UNCHANGED <<lockFailures, lastCleanup>>
          ELSE /\ lockFailures' = rec.failures
               /\ lastCleanup' = rec.lastCleanup
               /\ streak' = [streak EXCEPT ![k] =
                    [n |-> streak[k].n + 1,
                     chained |-> IF chain THEN streak[k].chained + 1 ELSE 1,
                     last |-> now]]
     /\ ret' = [op |-> "tryAcquire", key |-> k, outcome |-> call.outcome,
                before |-> FailureCount(lockFailures, k),
                thrown |-> TryAcquireOutcome(call.outcome, call.token).thrown,
                result |-> TryAcquireOutcome(call.outcome, call.token).result]
     /\ UNCHANGED <<now, holders, memVars, fileVars, nextToken, maxFailureEntries>>

LockClose_ClosesDriver ==
  /\ lockFailures # << >>
  /\ lockFailures' = << >>
  /\ locks' = EmptyMap
  /\ streak' = [k \in Keys |-> [streak[k] EXCEPT !.chained = 0]]
  /\ ret' = [op |-> "close"]
  /\ UNCHANGED <<now, holders, relPending, fileVars, lastCleanup, inflight, nextToken,
                 maxFailureEntries>>

\* close()
LockClose ==
  /\ lockFailures # << >>
  /\ lockFailures' = << >>
  /\ streak' = [k \in Keys |-> [streak[k] EXCEPT !.chained = 0]]
  /\ ret' = [op |-> "close"]
  /\ UNCHANGED <<now, holders, memVars, fileVars, lastCleanup, inflight, nextToken,
                 maxFailureEntries>>

LockTickLimit == Epoch + (MaxLockTicks * MsPerSecond)

LockTick == now + MsPerSecond <= LockTickLimit /\ Elapse(MsPerSecond)

\* the process is idle for longer than the sweep interval, once
LockSleep == now <= LockTickLimit /\ Elapse(SweepInterval + MsPerSecond)

InitLock ==
  /\ now = Epoch
  /\ ret = [op |-> "init"]
  /\ holders = {}
  /\ locks = EmptyMap
  /\ relPending = NoRelease
  /\ files = EmptyMap
  /\ calls = [p \in Procs |-> Idle]
  /\ callsLeft = 0
  /\ LockIdle

NextLock ==
  \/ LockTick
  \/ LockSleep
  \/ LockClose
  \/ \E c \in Callers :
       \/ LockTryAcquireBegin(c)
       \/ LockTryAcquireEnd(c)

SpecLock == InitLock /\ [][NextLock]_vars

\* ------------------------------------------------- SpecLock: the claims

\* tryAcquire(k) has just returned after the driver threw
Threw(k) == ret.op = "tryAcquire" /\ ret.outcome = "threw" /\ ret.key = k

\* C9 as stated: whenever tryAcquire(k) returns after the driver threw for the
\* threshold-th consecutive time, the breaker of k is open.
C9_OpenAfterThresholdFailures ==
  \A k \in Keys :
    (Threw(k) /\ streak[k].n >= CircuitBreakerThreshold)
      => IsCircuitOpen(lockFailures, k, now)

\* C9, amended: when the driver has thrown for k threshold times in a row,
\* each failure recorded no more than the reset time after the one before and
\* the failure record of k not removed in between (by the eviction of the
\* oldest entries or by close), the breaker of k is open when the last of
\* these calls returns; and a tryAcquire(k) issued while the breaker of k is
\* open returns null and never reaches the driver: no call of the driver
\* starts for a key whose breaker is open, and the short-circuited return
\* leaves the locks, the tokens and the failure records as they were.
C9_OpenAfterChainedFailures ==
  [][ /\ \A k \in Keys :
           (Threw(k)' /\ streak'[k].chained >= CircuitBreakerThreshold)
             => IsCircuitOpen(lockFailures', k, now')
      /\ \A c \in Callers :
           (~inflight[c].active /\ inflight'[c].active)
             => ~IsCircuitOpen(lockFailures, inflight'[c].key, now)
      /\ (ret'.op = "tryAcquire" /\ ret'.outcome = "open")
           => /\ ret'.result = 0
              /\ IsCircuitOpen(lockFailures, ret'.key, now)
              /\ UNCHANGED <<locks, nextToken, inflight, lockFailures>>
    ]_vars

\* a tryAcquire(k) was short-circuited after threshold chained failures of k
C9_Witness ==
  /\ ret.op = "tryAcquire"
  /\ ret.outcome = "open"
  /\ streak[ret.key].chained >= CircuitBreakerThreshold
  /\ streak[ret.key].n >= CircuitBreakerThreshold

\* the failure record of k reached the threshold and its reset time has elapsed
Elapsed(k) ==
  LET i == FailureIndex(lockFailures, k)
  IN /\ i # 0
     /\ lockFailures[i].count >= CircuitBreakerThreshold
     /\ now - lockFailures[i].lastFailure >= CircuitBreakerResetTime

\* C10: once the reset time has elapsed since the last recorded failure of k,
\* the breaker of k is closed although its record is still there with a count
\* at or over the threshold, and a tryAcquire(k) issued then is not
\* short-circuited: it calls the driver.
C10_ClosesAfterResetTime ==
  [][ \A k \in Keys :
        Elapsed(k)
          => /\ ~IsCircuitOpen(lockFailures, k, now)
             /\ ~(ret'.op = "tryAcquire" /\ ret'.outcome = "open" /\ ret'.key = k)
    ]_vars

\* the driver is being called for k while the record of k, over the threshold,
\* is still in the map, its reset time elapsed
C10_Witness ==
  \E c \in Callers :
    /\ inflight[c].active
    /\ Elapsed(inflight[c].key)

\* ------------------------------------- AtomicLock: acquire, release, withLock

\* The calls of acquire, withLock and release, and the clock ticks, of one run.
MaxApiCalls == 3
MaxApiTicks == 1

\* options.maxRetries
Retries == {0, 1}

\* what the callback of withLock does
BodyExits == {"returned", "threw"}

\* new Error(`Failed to acquire lock for key: ${key}`)
AcquisitionFailed(key) == [name |-> "Failed to acquire lock for key", key |-> key]

NoError == [name |-> "none"]

GetCircuitBreakerStatus(F, key, t) ==
  [isOpen |-> IsCircuitOpen(F, key, t), failureCount |-> FailureCount(F, key)]

\* acquire after its tryAcquire: lockValue is the token, or 0 for null
AcquireOutcome_ReturnsNull(key, lockValue) ==
  [thrown |-> FALSE, error |-> NoError, result |-> lockValue]

AcquireOutcome(key, lockValue) ==
  IF lockValue = 0
    THEN [thrown |-> TRUE, error |-> AcquisitionFailed(key), result |-> 0]
    ELSE [thrown |-> FALSE, error |-> NoError, result |-> lockValue]

\* release: the driver's answer, or false when the driver rejected
ReleaseOutcome_Rethrows(rejected, released) ==
  [thrown |-> rejected, result |-> ~rejected /\ released]

ReleaseOutcome(rejected, released) ==
  [thrown |-> FALSE, result |-> ~rejected /\ released]

\* withLock: where control goes when the callback has returned or thrown
WlAfterBody_NoFinally(exit) == IF exit = "threw" THEN "return" ELSE "finally"

WlAfterBody(exit) == "finally"

\* acquire(key, options) and withLock(key, callback, options) up to the await
\* of the driver: tryAcquire's gate, its token and its call of the driver.
ApiAcquireCall(p) ==
  /\ calls[p] = Idle
  /\ callsLeft > 0
  /\ callsLeft' = callsLeft - 1
  /\ \E op \in {"acquire", "withLock"}, key \in Keys, n \in Retries, ttl \in LockTTLs :
       IF IsCircuitOpen(lockFailures, key, now)
         THEN LET out == AcquireOutcome(key, 0)
              IN /\ ret' = [op |-> op, key |-> key, maxRetries |-> n, attempts |-> 1,
                            driverCalls |-> 0, outcome |-> "open", body |-> "none",
                            released |-> << >>, token |-> 0,
                            thrown |-> out.thrown, error |-> out.error,
                            result |-> out.result]
                 /\ UNCHANGED <<locks, calls, nextToken>>
         ELSE /\ nextToken < MaxTokens
              /\ nextToken' = GenerateLockValue(nextToken)
              /\ ret' = [op |-> "await"]
              /\ \/ LET r == MemTryAcquire(locks, key, nextToken', ttl, now)
                    IN /\ locks' = r.locks
                       /\ calls' = [calls EXCEPT ![p] =
                            [pc |-> "try", op |-> op, key |-> key, maxRetries |-> n,
                             token |-> nextToken',
                             outcome |-> IF r.result THEN "acquired" ELSE "refused"]]
                 \/ /\ calls' = [calls EXCEPT ![p] =
                            [pc |-> "try", op |-> op, key |-> key, maxRetries |-> n,
                             token |-> nextToken', outcome |-> "threw"]]
                    /\ UNCHANGED locks
  /\ UNCHANGED <<now, holders, relPending, files, lockFailures, lastCleanup, inflight,
                 streak, maxFailureEntries>>

\* tryAcquire after the await, then what acquire makes of its result; withLock
\* goes on to its callback when acquire returned a token.
ApiTryAcquireEnd(p) ==
  LET c == calls[p]
      rec == RecordLockFailure(lockFailures, lastCleanup, c.key, now)
      lockValue == TryAcquireOutcome(c.outcome, c.token).result
      out == AcquireOutcome(c.key, lockValue)
  IN /\ c.pc = "try"
     /\ IF c.outcome = "acquired"
          THEN /\ lockFailures' = FailureDelete(lockFailures, c.key)
               /\ UNCHANGED lastCleanup
          ELSE IF c.outcome = "refused"
          THEN UNCHANGED <<lockFailures, lastCleanup>>
          ELSE /\ lockFailures' = rec.failures
               /\ lastCleanup' = rec.lastCleanup
     /\ IF c.op = "withLock" /\ ~out.thrown
          THEN /\ calls' = [calls EXCEPT ![p] = [c EXCEPT !.pc = "body"]]
               /\ ret' = [op |-> "await"]
          ELSE /\ calls' = [calls EXCEPT ![p] = Idle]
               /\ ret' = [op |-> c.op, key |-> c.key, maxRetries |-> c.maxRetries,
                          attempts |-> 1, driverCalls |-> 1, outcome |-> c.outcome,
                          body |-> "none", released |-> << >>, token |-> lockValue,
                          thrown |-> out.thrown, error |-> out.error,
                          result |-> out.result]
     /\ UNCHANGED <<now, holders, memVars, files, callsLeft, inflight, nextToken, streak,
                    maxFailureEntries>>

\* withLock: the callback runs to its end, returning or throwing
WlBody(p) ==
  LET c == calls[p]
  IN /\ c.pc = "body"
     /\ \E exit \in BodyExits :
          calls' = [calls EXCEPT ![p] =
            [pc |-> WlAfterBody(exit), op |-> c.op, key |-> c.key, token |-> c.token,
             body |-> exit, released |-> << >>]]
     /\ ret' = [op |-> "await"]
     /\ UNCHANGED <<now, holders, memVars, files, callsLeft, lockVars>>

\* withLock: the finally block, await this.release(key, lockValue)
WlRelease(p) ==
  LET c == calls[p]
  IN /\ c.pc = "finally"
     /\ \E rejected \in BOOLEAN :
          LET r == MemRelease(locks, c.key, c.token)
              out == ReleaseOutcome(rejected, r.result)
          IN /\ ~out.thrown
             /\ locks' = IF rejected THEN locks ELSE r.locks
             /\ calls' = [calls EXCEPT ![p] =
                  [c EXCEPT !.pc = "return",
                            !.released = Append(c.released,
                               [key |-> c.key, value |-> c.token, result |-> out.result])]]
     /\ ret' = [op |-> "await"]
     /\ UNCHANGED <<now, holders, relPending, files, callsLeft, lockVars>>

\* withLock: the callback's result or error reaches the caller
WlReturn(p) ==
  LET c == calls[p]
  IN /\ c.pc = "return"
     /\ calls' = [calls EXCEPT ![p] = Idle]
     /\ ret' = [op |-> "withLock", key |-> c.key, maxRetries |-> 0, attempts |-> 1,
                driverCalls |-> 1, outcome |-> "acquired", body |-> c.body,
                released |-> c.released, token |-> c.token,
                thrown |-> (c.body = "threw"),
                error |-> IF c.body = "threw" THEN [name |-> "callback"] ELSE NoError,
                result |-> IF c.body = "threw" THEN 0 ELSE 1]
     /\ UNCHANGED <<now, holders, memVars, files, callsLeft, lockVars>>

\* release(key, lockValue)
ApiReleaseCall(p) ==
  /\ calls[p] = Idle
  /\ callsLeft > 0
  /\ callsLeft' = callsLeft - 1
  /\ \E key \in Keys, value \in 1..MaxTokens, rejected \in BOOLEAN :
       LET r == MemRelease(locks, key, value)
           out == ReleaseOutcome(rejected, r.result)
       IN /\ locks' = IF rejected THEN locks ELSE r.locks
          /\ ret' = [op |-> "release", key |-> key, value |-> value,
                     open |-> IsCircuitOpen(lockFailures, key, now),
                     driverCalls |-> 1, rejected |-> rejected,
                     thrown |-> out.thrown, result |-> out.result]
  /\ UNCHANGED <<now, holders, relPending, files, calls, lockVars>>

ApiTick == now + MsPerSecond <= Epoch + (MaxApiTicks * MsPerSecond) /\ Elapse(MsPerSecond)

InitApi ==
  /\ now = Epoch
  /\ ret = [op |-> "init"]
  /\ holders = {}
  /\ locks = EmptyMap
  /\ relPending = NoRelease
  /\ files = EmptyMap
  /\ calls = [p \in Procs |-> Idle]
  /\ callsLeft = MaxApiCalls
  /\ LockIdle

NextApi ==
  \/ ApiTick
  \/ \E p \in Procs :
       \/ ApiAcquireCall(p)
       \/ ApiTryAcquireEnd(p)
       \/ WlBody(p)
       \/ WlRelease(p)
       \/ WlReturn(p)
       \/ ApiReleaseCall(p)

SpecApi == InitApi /\ [][NextApi]_vars

\* ---------------------------------------------------- SpecApi: the claims

\* C11: when withLock returns or throws after its callback has run, release
\* has been called exactly once, with the key and the token withLock acquired,
\* whether the callback returned or threw; and a withLock whose result is still
\* to reach the caller after the release has that one release behind it.
C11_WithLockReleasesOnce ==
  /\ (ret.op = "withLock" /\ ret.body # "none")
       => /\ Len(ret.released) = 1
          /\ ret.released[1].key = ret.key
          /\ ret.released[1].value = ret.token
          /\ ret.thrown = (ret.body = "threw")
  /\ \A p \in Procs :
       /\ calls[p].pc = "return"
            => /\ Len(calls[p].released) = 1
               /\ calls[p].released[1].value = calls[p].token
       /\ calls[p].pc = "finally" => calls[p].released = << >>

\* the callback threw, and the error reached the caller after the one release
C11_Witness ==
  /\ ret.op = "withLock"
  /\ ret.body = "threw"
  /\ ret.thrown
  /\ Len(ret.released) = 1
  /\ ret.released[1].value = ret.token

\* ------------------------------------- SpecLock: the claims on tryAcquire

\* C12: tryAcquire never throws, and when the driver rejected, the call
\* returns null and the failure is on record for the key: the key has a
\* failure record stamped with the time of the return, counting at least one.
C12_TryAcquireAbsorbsErrors ==
  ret.op = "tryAcquire" =>
    /\ ~ret.thrown
    /\ ret.outcome = "threw" =>
         /\ ret.result = 0
         /\ FailureIndex(lockFailures, ret.key) # 0
         /\ lockFailures[FailureIndex(lockFailures, ret.key)].lastFailure = now
         /\ FailureCount(lockFailures, ret.key) >= 1

\* the driver rejected a call for a key that already had a failure on record
C12_Witness ==
  /\ ret.op = "tryAcquire"
  /\ ret.outcome = "threw"
  /\ ret.result = 0
  /\ ret.before = 1
  /\ FailureCount(lockFailures, ret.key) = 2

\* C13: release never throws and is not gated by the breaker: every call
\* reaches the driver, also while the breaker of its key is open; it returns
\* false when the driver rejected; and it leaves the failure records, hence
\* the breaker state of every key, as they were.
C13_ReleaseBypassesBreaker ==
  [][ret'.op = "release" =>
        /\ ~ret'.thrown
        /\ ret'.driverCalls = 1
        /\ ret'.rejected => ret'.result = FALSE
        /\ ~ret'.rejected =>
             ret'.result = (/\ MapHas(locks, ret'.key)
                            /\ locks[ret'.key].value = ret'.value)
        /\ UNCHANGED <<lockFailures, lastCleanup>>
        /\ \A k \in Keys :
             GetCircuitBreakerStatus(lockFailures', k, now')
               = GetCircuitBreakerStatus(lockFailures, k, now)
    ]_vars

\* the driver rejected a release made while the breaker of its key was open
C13_Witness ==
  /\ ret.op = "release"
  /\ ret.open
  /\ ret.rejected
  /\ ret.result = FALSE
  /\ IsCircuitOpen(lockFailures, ret.key, now)

C15_AcquireRetriesBeforeThrowing ==
  (ret.op = "acquire" /\ ret.thrown /\ ret.outcome = "refused")
    => ret.attempts = ret.maxRetries + 1

\* C16 (as claimed): when the driver answers false, tryAcquire returns null
\* and records a failure for the key as it does for a thrown error: the key's
\* record is stamped with the time of the return and its count is one more
\* than before, or 1.
C16_RefusalIsRecorded ==
  (ret.op = "tryAcquire" /\ ret.outcome = "refused") =>
    /\ ret.result = 0
    /\ FailureIndex(lockFailures, ret.key) # 0
    /\ lockFailures[FailureIndex(lockFailures, ret.key)].lastFailure = now
    /\ FailureCount(lockFailures, ret.key) \in {ret.before + 1, 1}

\* C17: a tryAcquire(k) that returns a token has deleted the failure record of
\* k: getCircuitBreakerStatus(k) then reports failureCount 0 and isOpen false,
\* whatever the count was, and the records of the other keys are as they were.
C17_SuccessClearsFailures ==
  [][(ret'.op = "tryAcquire" /\ ret'.outcome = "acquired") =>
        /\ GetCircuitBreakerStatus(lockFailures', ret'.key, now')
             = [isOpen |-> FALSE, failureCount |-> 0]
        /\ lockFailures' = SelectSeq(lockFailures, LAMBDA f : f.key # ret'.key)
    ]_vars

\* a tryAcquire succeeded on a key whose failure count had reached the threshold
C17_Witness ==
  /\ ret.op = "tryAcquire"
  /\ ret.outcome = "acquired"
  /\ ret.result # 0
  /\ ret.before >= CircuitBreakerThreshold
  /\ FailureCount(lockFailures, ret.key) = 0

\* ------------------------------------ AtomicLock with any maxFailureEntries

\* The lock is constructed with any maxFailureEntries up to MaxFailureEntries.
InitCap ==
  /\ now = Epoch
  /\ ret = [op |-> "init"]
  /\ holders = {}
  /\ locks = EmptyMap
  /\ relPending = NoRelease
  /\ files = EmptyMap
  /\ calls = [p \in Procs |-> Idle]
  /\ callsLeft = 0
  /\ lockFailures = << >>
  /\ lastCleanup = Epoch
  /\ inflight = [c \in Callers |-> NotCalling]
  /\ nextToken = 0
  /\ streak = [k \in Keys |-> NoStreak]
  /\ maxFailureEntries \in 0..MaxFailureEntries

SpecCap == InitCap /\ [][NextLock]_vars

BornExpired(m, k) == MapHas(m, k) /\ m[k].expiresAt <= m[k].createdAt

\* C19 (as claimed): tryAcquire of a free key returns true with a TTL of zero
\* or less too, and the record it leaves is expired from the start: at any
\* clock reading from the one of its creation on, exists on its key returns
\* false and a tryAcquire of the key by another caller returns true.
C19_NonPositiveTtlIsBornExpired ==
  [][/\ (ret'.op = "tryAcquire" /\ ret'.had = "none") => ret'.result = TRUE
     /\ (ret'.op = "exists" /\ BornExpired(locks, ret'.key))
          => ret'.result = FALSE
     /\ (/\ ret'.op = "tryAcquire"
         /\ BornExpired(locks, ret'.key)
         /\ ret'.value # locks[ret'.key].value)
          => ret'.result = TRUE
    ]_vars

\* the key a releaseMultiple is about to handle, and its count so far
RelBefore ==
  IF relPending.active THEN relPending
  ELSE [rest |-> relPending'.keys, released |-> 0]

NotAFunction == [name |-> "TypeError"]

\* lock.tryAcquireMultiple(keys, options)
LockTryAcquireMultipleCall ==
  /\ \E keys \in KeyLists :
       ret' = [op |-> "tryAcquireMultiple", keys |-> keys, thrown |-> TRUE,
               error |-> NotAFunction, driverCalls |-> 0, result |-> 0]
  /\ UNCHANGED <<now, holders, memVars, fileVars, lockVars>>

\* lock.resetCircuitBreaker(key)
LockResetCircuitBreakerCall ==
  /\ \E key \in Keys :
       ret' = [op |-> "resetCircuitBreaker", key |-> key, thrown |-> TRUE,
               error |-> NotAFunction]
  /\ UNCHANGED <<now, holders, memVars, fileVars, lockVars>>

NextDoc ==
  \/ LockTick
  \/ LockTryAcquireMultipleCall
  \/ LockResetCircuitBreakerCall
  \/ \E c \in Callers :
       \/ LockTryAcquireBegin(c)
       \/ LockTryAcquireEnd(c)

SpecDoc == InitLock /\ [][NextDoc]_vars

\* every key of the list holds a record with the token
AllAcquired(keys, token) ==
  \A i \in 1..Len(keys) : MapHas(locks, keys[i]) /\ locks[keys[i]].value = token

\* C21 (as claimed): tryAcquireMultiple(keys) makes one call of the driver's
\* multi-key primitive and returns a token, shared by all the keys, exactly
\* when every key was acquired.
C21_BatchSharesOneToken ==
  ret.op = "tryAcquireMultiple" =>
    /\ ~ret.thrown
    /\ ret.driverCalls = 1
    /\ ret.result # 0 => AllAcquired(ret.keys, ret.result)

\* C22 (as claimed): after resetCircuitBreaker(k) the key has no failure
\* record: its status is isOpen false and failureCount 0.
C22_ResetClearsRecord ==
  ret.op = "resetCircuitBreaker" =>
    /\ ~ret.thrown
    /\ GetCircuitBreakerStatus(lockFailures, ret.key, now)
         = [isOpen |-> FALSE, failureCount |-> 0]

\* ------------------------------------ SpecLock: the claims, continued

FileExists(f, key, t) ==
  LET existing == ReadLockFile(f, LockPath(key))
  IN existing # NoFileLock /\ existing.expiresAt >= t

FileGetLockInfo(f, key) ==
  LET fileLock == ReadLockFile(f, LockPath(key))
  IN IF fileLock = NoFileLock THEN NoInfo
     ELSE [key |-> key, value |-> fileLock.value,
           expiresAt |-> fileLock.expiresAt, createdAt |-> fileLock.createdAt]

FileExistsCall ==
  \E key \in Keys :
    /\ ret' = [op |-> "exists", key |-> key, result |-> FileExists(files, key, now)]
    /\ UNCHANGED <<now, holders, files, calls, callsLeft>>
    /\ UNCHANGED memVars
    /\ UNCHANGED lockVars

FileGetLockInfoCall ==
  \E key \in Keys :
    /\ ret' = [op |-> "getLockInfo", key |-> key, result |-> FileGetLockInfo(files, key)]
    /\ UNCHANGED <<now, holders, files, calls, callsLeft>>
    /\ UNCHANGED memVars
    /\ UNCHANGED lockVars

NextFileInfo ==
  \/ FileTick
  \/ FileExistsCall
  \/ FileGetLockInfoCall
  \/ \E p \in Procs :
       \/ FileTryAcquireCall(p)
       \/ TaCreate(p)
       \/ TaWrite(p)
       \/ TaRead(p)
       \/ TaUnlink(p)

SpecFileInfo == InitFile /\ [][NextFileInfo]_vars

\* C24 (file driver): whenever getLockInfo(key) has just returned, it returned
\* a record exactly when exists(key) answers true at that instant, and the
\* record carries the stored token and timestamps.
C24_InfoIffExists ==
  ret.op = "getLockInfo" =>
    /\ (ret.result # NoInfo) <=> FileExists(files, ret.key, now)
    /\ ret.result # NoInfo =>
         /\ ret.result.value = files[LockPath(ret.key)].value
         /\ ret.result.expiresAt = files[LockPath(ret.key)].expiresAt
         /\ ret.result.createdAt = files[LockPath(ret.key)].createdAt


\* The tokens AtomicLock has handed to a driver or to a caller so far.
TokensOut ==
  {inflight[c].token : c \in {d \in Callers : inflight[d].active}}
    \cup {locks[k].value : k \in DOMAIN locks}
    \cup (IF ret.op = "tryAcquire" THEN {ret.result} ELSE {})

\* C25: the token of a tryAcquire is minted unlike every token minted before
\* it, a driver that grants the lock stores exactly that token in the key's
\* record, and the successful call returns that token, which is not null.
C25_TokenFreshAndStored ==
  [][ /\ \A c \in Callers :
           (~inflight[c].active /\ inflight'[c].active) =>
             /\ inflight'[c].token # 0
             /\ inflight'[c].token \notin TokensOut
             /\ \A t \in TokensOut : t <= nextToken
             /\ inflight'[c].token > nextToken
             /\ inflight'[c].outcome = "acquired" =>
                  /\ MapHas(locks', inflight'[c].key)
                  /\ locks'[inflight'[c].key].value = inflight'[c].token
      /\ \A c \in Callers :
           (inflight[c].active /\ ~inflight'[c].active
              /\ inflight[c].outcome = "acquired") =>
             /\ ret'.op = "tryAcquire"
             /\ ~ret'.thrown
             /\ ret'.result = inflight[c].token
             /\ ret'.result # 0
    ]_vars

C25_Witness ==
  /\ ret.op = "tryAcquire"
  /\ ret.outcome = "acquired"
  /\ ret.result > 1
  /\ MapHas(locks, ret.key)
  /\ locks[ret.key].value = ret.result


\* the failure records of k: none or one
RecordsOf(F, k) == {F[i] : i \in {j \in 1..Len(F) : F[j].key = k}}

\* C26 as stated: a driver exception on tryAcquire(k) leaves k with one record
\* stamped now, counting 1 when k had no record or one whose window had
\* elapsed, and the previous count plus one otherwise, whatever the map holds.
C26_CountRule ==
  [][ \A k \in Keys :
        Threw(k)' =>
          /\ Cardinality(RecordsOf(lockFailures', k)) = 1
          /\ \A f \in RecordsOf(lockFailures', k) :
               /\ f.lastFailure = now'
               /\ f.count =
                    IF \E g \in RecordsOf(lockFailures, k) :
                         ~(now - g.lastFailure > CircuitBreakerResetTime)
                      THEN (CHOOSE g \in RecordsOf(lockFailures, k) : TRUE).count + 1
                      ELSE 1
    ]_vars

\* C26, amended: the rule is applied to what the maintenance that precedes it
\* has left of the map. A driver exception on tryAcquire(k) leaves k with one
\* record stamped now, counting 1 when k had no record, or one whose window had
\* elapsed, or one that the eviction of the oldest entries of a full map has
\* just removed, and the previous count plus one otherwise.
C26_CountRuleAfterEviction ==
  [][ \A k \in Keys :
        Threw(k)' =>
          /\ Cardinality(RecordsOf(lockFailures', k)) = 1
          /\ \A f \in RecordsOf(lockFailures', k) :
               /\ f.lastFailure = now'
               /\ f.count =
                    IF /\ \E g \in RecordsOf(lockFailures, k) :
                            ~(now - g.lastFailure > CircuitBreakerResetTime)
                       /\ ~Evicts(lockFailures, lastCleanup, k, now)
                      THEN (CHOOSE g \in RecordsOf(lockFailures, k) : TRUE).count + 1
                      ELSE 1
    ]_vars

\* a failure of a key was recorded with the map full: its record, well within
\* its window, went with the oldest entries and the count started again at 1
C26_Witness ==
  /\ ret.op = "tryAcquire"
  /\ ret.outcome = "threw"
  /\ ret.before >= 1
  /\ now - Epoch <= CircuitBreakerResetTime
  /\ FailureCount(lockFailures, ret.key) = 1


\* C27: when the record of k is at or over the threshold and the reset time
\* has elapsed since its last failure, so that the breaker of k is closed, the
\* next driver failure of k leaves the count at 1 and the breaker closed, also
\* when exactly the reset time has elapsed.
C27_FailureAfterWindowRestarts ==
  [][ \A k \in Keys :
        (Elapsed(k) /\ Threw(k)') =>
          /\ FailureCount(lockFailures', k) = 1
          /\ ~IsCircuitOpen(lockFailures', k, now')
    ]_vars


\* ------------------------------------------- AtomicLock: the status report

\* an optional field of the report that is undefined
Undefined == [defined |-> FALSE]

Defined(n) == [defined |-> TRUE, at |-> n]

\* getCircuitBreakerStatus, with all its fields
CircuitBreakerStats(F, key, t) ==
  LET i == FailureIndex(F, key)
  IN [isOpen |-> IsCircuitOpen(F, key, t),
      failureCount |-> IF i # 0 THEN F[i].count ELSE 0,
      lastFailure |-> IF i # 0 THEN Defined(F[i].lastFailure) ELSE Undefined,
      nextAttemptAt |-> IF i # 0
                          THEN Defined(F[i].lastFailure + CircuitBreakerResetTime)
                          ELSE Undefined]

\* C28: in every state and for every key, the status reports the breaker open
\* exactly when the key has a record with a count at or over the threshold and
\* a last failure less than the reset time ago; without a record it reports
\* closed, no failures and neither time; with a record it reports the record's
\* count and last failure, and the next attempt at last failure + reset time.
C28_StatusMatchesRecord ==
  \A k \in Keys :
    LET status == CircuitBreakerStats(lockFailures, k, now)
        recs == RecordsOf(lockFailures, k)
    IN /\ status.isOpen <=>
            \E f \in recs : /\ f.count >= CircuitBreakerThreshold
                            /\ now - f.lastFailure < CircuitBreakerResetTime
       /\ recs = {} =>
            status = [isOpen |-> FALSE, failureCount |-> 0,
                      lastFailure |-> Undefined, nextAttemptAt |-> Undefined]
       /\ \A f \in recs :
            /\ status.failureCount = f.count
            /\ status.lastFailure = Defined(f.lastFailure)
            /\ status.nextAttemptAt = Defined(f.lastFailure + CircuitBreakerResetTime)

\* one key's breaker is open with a count exactly at the threshold and its
\* next attempt still ahead, the other key has no record
C28_Witness ==
  \E k1 \in Keys, k2 \in Keys :
    /\ CircuitBreakerStats(lockFailures, k1, now).isOpen
    /\ CircuitBreakerStats(lockFailures, k1, now).failureCount = CircuitBreakerThreshold
    /\ CircuitBreakerStats(lockFailures, k1, now).nextAttemptAt = Defined(now + MsPerSecond)
    /\ CircuitBreakerStats(lockFailures, k2, now).lastFailure = Undefined

\* ------------------------------------- AtomicLock: a map of over 100 records

\* The failing calls and the naps of one run.
MaxEvictCalls == 5
MaxEvictNaps == 1

\* options.maxFailureEntries: room for two records more than one eviction takes
EvictCap == EvictBatch + 2

\* The keys are numbered. The driver has thrown once for each of the first
\* EvictBatch keys, in their order, when the run starts.
Prefilled ==
  [i \in 1..EvictBatch |-> [key |-> i, count |-> 1, lastFailure |-> Epoch]]

\* the keys of the calls: two of the first, and three that are new
EvictKeys == {1, 2, EvictBatch + 1, EvictBatch + 2, EvictBatch + 3}

\* the keys of the records, in the order of the map
KeyOrder(F) == [i \in 1..Len(F) |-> F[i].key]

\* tryAcquire(key) with a driver that throws: the gate, then the failure
\* recorded. One caller, so nothing comes between the call and its return.
EvictTryAcquireThrows ==
  /\ callsLeft > 0
  /\ callsLeft' = callsLeft - 1
  /\ \E key \in EvictKeys :
       IF IsCircuitOpen(lockFailures, key, now)
         THEN /\ ret' = [op |-> "tryAcquire", key |-> key, outcome |-> "open",
                         before |-> Len(lockFailures), wasOpen |-> {key},
                         thrown |-> FALSE, result |-> 0]
              /\ UNCHANGED <<lockFailures, lastCleanup>>
         ELSE LET rec == RecordLockFailure(lockFailures, lastCleanup, key, now)
              IN /\ lockFailures' = rec.failures
                 /\ lastCleanup' = rec.lastCleanup
                 /\ ret' = [op |-> "tryAcquire", key |-> key, outcome |-> "threw",
                            before |-> Len(lockFailures),
                            wasOpen |-> {k \in EvictKeys :
                                           IsCircuitOpen(lockFailures, k, now)},
                            thrown |-> TryAcquireOutcome("threw", 0).thrown,
                            result |-> TryAcquireOutcome("threw", 0).result]
  /\ UNCHANGED <<now, holders, memVars, files, calls, inflight, nextToken, streak,
                 maxFailureEntries>>

\* the process is idle until every record's window has elapsed
EvictNap ==
  /\ now < Epoch + (MaxEvictNaps * (CircuitBreakerResetTime + MsPerSecond))
  /\ Elapse(CircuitBreakerResetTime + MsPerSecond)

InitEvict ==
  /\ now = Epoch
  /\ ret = [op |-> "init"]
  /\ holders = {}
  /\ locks = EmptyMap
  /\ relPending = NoRelease
  /\ files = EmptyMap
  /\ calls = [p \in Procs |-> Idle]
  /\ callsLeft = MaxEvictCalls
  /\ lockFailures = Prefilled
  /\ lastCleanup = Epoch
  /\ inflight = [c \in Callers |-> NotCalling]
  /\ nextToken = 0
  /\ streak = [k \in Keys |-> NoStreak]
  /\ maxFailureEntries = EvictCap

NextEvict ==
  \/ EvictNap
  \/ EvictTryAcquireThrows

SpecEvict == InitEvict /\ [][NextEvict]_vars


\* C29: a failure recorded for key k while the map holds maxFailureEntries
\* records or more first removes the records at the first 100 positions of the
\* map, whatever their age and whether or not their breakers are open, and
\* keeps the others as they are and in their order; and a failure recorded for
\* a key that keeps its record leaves the key at its position, while a key
\* without a record is added at the end.
C29_EvictsInInsertionOrder ==
  [][ (ret'.op = "tryAcquire" /\ ret'.outcome = "threw") =>
        LET k == ret'.key
            swept == IF now - lastCleanup > SweepInterval
                       THEN SelectSeq(lockFailures,
                              LAMBDA f : now - f.lastFailure <= CircuitBreakerResetTime)
                       ELSE lockFailures
            kept == IF Len(swept) >= maxFailureEntries
                      THEN SubSeq(swept, EvictBatch + 1, Len(swept))
                      ELSE swept
        IN /\ KeyOrder(lockFailures') =
                IF \E i \in 1..Len(kept) : kept[i].key = k
                  THEN KeyOrder(kept)
                  ELSE Append(KeyOrder(kept), k)
           /\ \A i \in 1..Len(kept) :
                kept[i].key # k => lockFailures'[i] = kept[i]
    ]_vars

\* the map was full when a failure of a new key was recorded: key 1, whose
\* breaker a second failure had opened after keys were added behind it, went
\* with the first 100 keys, and the two keys added last stayed
C29_Witness ==
  /\ ret.op = "tryAcquire"
  /\ ret.outcome = "threw"
  /\ ret.before = EvictCap
  /\ 1 \in ret.wasOpen
  /\ FailureCount(lockFailures, 1) = 0
  /\ KeyOrder(lockFailures) = <<EvictBatch + 1, EvictBatch + 2, EvictBatch + 3>>


\* ------------------------------------------- AtomicLock: around the sweeps

\* The clock ticks that follow the start and each nap, and the naps, of a run.
MaxSweepTicks == 2
MaxSweepNaps == 2

\* the clock ticks since the start or the last nap
SinceNap == (now - Epoch) % SweepInterval

SweepTick ==
  /\ SinceNap + MsPerSecond <= MaxSweepTicks * MsPerSecond
  /\ Elapse(MsPerSecond)

\* the process is idle for exactly the sweep interval
SweepNap ==
  /\ now - Epoch < MaxSweepNaps * SweepInterval
  /\ Elapse(SweepInterval)

\* one caller: what runs between two sweeps does not depend on who calls
NextSweep ==
  \/ SweepTick
  \/ SweepNap
  \/ LockTryAcquireBegin("c1")
  \/ LockTryAcquireEnd("c1")

SpecSweep == InitLock /\ [][NextSweep]_vars

\* the window of the record has elapsed
Stale(f, t) == t - f.lastFailure > CircuitBreakerResetTime

\* C30: lastCleanup, the time of the last sweep, changes only when a failure is
\* recorded more than 60 seconds after it, and becomes the time of that
\* failure. The sweep of that failure removes every record whose window has
\* elapsed; the records whose window has not elapsed, those of the open
\* breakers among them, are still there after it unless the map, full without
\* the swept records, evicts its oldest entries. A failure recorded 60 seconds
\* or less after the last sweep removes no record unless the map is full.
C30_SweepRemovesStaleOnly ==
  [][ LET threw == ret'.op = "tryAcquire" /\ ret'.outcome = "threw"
          due == now - lastCleanup > SweepInterval
          others == UNION {RecordsOf(lockFailures, k) : k \in Keys \ {ret'.key}}
          fresh == {i \in 1..Len(lockFailures) : ~Stale(lockFailures[i], now)}
      IN /\ lastCleanup' # lastCleanup => (threw /\ due)
         /\ (threw /\ due) =>
              /\ lastCleanup' = now
              /\ \A f \in others :
                   /\ Stale(f, now) => RecordsOf(lockFailures', f.key) = {}
                   /\ (~Stale(f, now) /\ Cardinality(fresh) < maxFailureEntries)
                        => RecordsOf(lockFailures', f.key) = {f}
                   /\ (IsCircuitOpen(lockFailures, f.key, now)
                         /\ Cardinality(fresh) < maxFailureEntries)
                        => IsCircuitOpen(lockFailures', f.key, now')
         /\ (threw /\ ~due /\ Len(lockFailures) < maxFailureEntries) =>
              \A f \in others : RecordsOf(lockFailures', f.key) = {f}
    ]_vars

\* a sweep has just run, with the failure of one key, and the breaker of the
\* other key, opened less than the reset time before, is still open
C30_Witness ==
  /\ ret.op = "tryAcquire"
  /\ ret.outcome = "threw"
  /\ lastCleanup = now
  /\ now - Epoch > SweepInterval
  /\ \E k \in Keys \ {ret.key} : IsCircuitOpen(lockFailures, k, now)


\* ------------------------------------- SpecLock: the claims, continued again

\* the records a failure recorded now finds after its sweep, if one is due
AfterSweep ==
  IF now - lastCleanup > SweepInterval
    THEN SelectSeq(lockFailures, LAMBDA f : ~Stale(f, now))
    ELSE lockFailures

\* C31 as stated: a failure recorded for key k leaves the failure count and
\* the breaker of every other key j that is inside its reset window as they
\* were.
C31_OtherKeysUntouched ==
  [][ \A k \in Keys, j \in Keys :
        (Threw(k)' /\ j # k /\ \E f \in RecordsOf(lockFailures, j) : ~Stale(f, now))
          => /\ FailureCount(lockFailures', j) = FailureCount(lockFailures, j)
             /\ IsCircuitOpen(lockFailures', j, now') = IsCircuitOpen(lockFailures, j, now)
    ]_vars

\* C31, amended: a failure recorded for key k while the map, after the sweep if
\* one is due, holds fewer than maxFailureEntries records leaves the record of
\* every other key j that is inside its reset window as it was, so that the
\* failure count and the breaker of j are the same before and after.
C31_OtherKeysUntouchedBelowMaximum ==
  [][ \A k \in Keys, j \in Keys :
        (/\ Threw(k)'
         /\ j # k
         /\ \E f \in RecordsOf(lockFailures, j) : ~Stale(f, now)
         /\ Len(AfterSweep) < maxFailureEntries)
          => /\ RecordsOf(lockFailures', j) = RecordsOf(lockFailures, j)
             /\ FailureCount(lockFailures', j) = FailureCount(lockFailures, j)
             /\ IsCircuitOpen(lockFailures', j, now') = IsCircuitOpen(lockFailures, j, now)
    ]_vars

\* a failure of one key has just been recorded and the breaker of the other
\* key, open before, is open still
C31_Witness ==
  /\ ret.op = "tryAcquire"
  /\ ret.outcome = "threw"
  /\ FailureCount(lockFailures, ret.key) = 1
  /\ \E j \in Keys \ {ret.key} :
       /\ IsCircuitOpen(lockFailures, j, now)
       /\ streak[j].last = now


\* C32: the failure count of a key never exceeds circuitBreakerThreshold: once
\* the driver has thrown that many times for the key, the breaker lets no
\* further call of the key through to the driver before the window ends,
\* whatever calls are in flight.
C32_FailuresWithinThreshold ==
  \A k \in Keys : FailureCount(lockFailures, k) <= CircuitBreakerThreshold


\* ------------------------------------- SpecFile: the claims, continued

\* C33 (file driver): a tryAcquireMultiple that is the only call made, so that
\* every listed key is free or holds an expired lock file left by an earlier
\* holder, returns true and leaves its token in the file of every listed key.
C33_BatchReclaimsExpired ==
  \A p \in Procs :
    (/\ calls[p].pc = "done"
     /\ calls[p].op = "tryAcquireMultiple"
     /\ callsLeft = MaxCalls - 1)
      => /\ calls[p].result = TRUE
         /\ \A i \in 1..Len(calls[p].keys) :
              /\ ReadLockFile(files, LockPath(calls[p].keys[i])).written
              /\ ReadLockFile(files, LockPath(calls[p].keys[i])).value = calls[p].value


\* ---------------------------------------------------- FileLockDriver: cleanup

\* fs.readdir: the lock files of the directory, in the order the system gives
Listings(f) ==
  {s \in [1..Cardinality(DOMAIN f) -> DOMAIN f] :
     \A i, j \in 1..Cardinality(DOMAIN f) : s[i] = s[j] => i = j}

\* lockData && lockData.expiresAt < now
ClExpired(lockData, t) == lockData.written /\ lockData.expiresAt < t

\* the loop of cleanup goes on to the next file, or cleanup returns
ClNext(c) ==
  IF Len(c.keys) > 1 THEN [c EXCEPT !.pc = "cl_read", !.keys = Tail(c.keys)]
  ELSE Returned(c, TRUE)

\* cleanup(): readdir, then the clock is read once
FileCleanupCall(p) ==
  /\ CanCall(p)
  /\ \E listing \in Listings(files) :
       LET c == [pc |-> "cl_read", op |-> "cleanup", key |-> "", keys |-> listing,
                 value |-> "", now |-> now]
       IN calls' = [calls EXCEPT ![p] =
                      IF listing = << >> THEN Returned(c, TRUE) ELSE c]
  /\ callsLeft' = callsLeft - 1
  /\ ret' = [op |-> "fs"]
  /\ UNCHANGED <<now, holders, memVars, files, lockVars>>

\* readLockFile of the next file, then the expiry test against the clock read
\* at the start
ClRead(p) ==
  LET c == calls[p]
      lockData == ReadLockFile(files, Head(c.keys))
  IN /\ c.pc = "cl_read"
     /\ calls' = [calls EXCEPT ![p] =
                    IF ClExpired(lockData, c.now) THEN [c EXCEPT !.pc = "cl_unlink"]
                    ELSE ClNext(c)]
     /\ ret' = [op |-> "fs"]
     /\ UNCHANGED <<now, holders, memVars, files, callsLeft, lockVars>>

\* fs.unlink(lockPath): by path, whatever the file holds by now; errors skipped
ClUnlink(p) ==
  LET c == calls[p]
      path == Head(c.keys)
  IN /\ c.pc = "cl_unlink"
     /\ files' = IF MapHas(files, path) THEN MapDelete(files, path) ELSE files
     /\ calls' = [calls EXCEPT ![p] = ClNext(c)]
     /\ ret' = [op |-> "cleanup", path |-> path,
                removed |-> ReadLockFile(files, path)]
     /\ UNCHANGED <<now, holders, memVars, callsLeft, lockVars>>

NextFileCleanup ==
  \/ FileTick
  \/ \E p \in Procs :
       \/ FileTryAcquireCall(p)
       \/ TaCreate(p)
       \/ TaWrite(p)
       \/ TaRead(p)
       \/ TaUnlink(p)
       \/ FileCleanupCall(p)
       \/ ClRead(p)
       \/ ClUnlink(p)

SpecFileCleanup == InitFile /\ [][NextFileCleanup]_vars

\* C34 (file driver): the unlink of a cleanup never removes a record that is
\* live: a lock acquired while the cleanup runs is still there when it ends.
C34_CleanupKeepsLive ==
  ret.op = "cleanup" => ~(ret.removed.written /\ Live(ret.removed, now))


\* ------------------------------------------- FileLockDriver: keys and paths

\* MAX_FILENAME_LENGTH
MaxFilenameLength == 200

\* The calls and the clock ticks of one run.
MaxPathCalls == 3
MaxPathTicks == 2

\* A key is the sequence of its characters.
SafeChars == {"a", "b", "c", "-", "_"}

\* key.replace(/[^a-zA-Z0-9-_]/g, '_')
Sanitize(key) == [i \in 1..Len(key) |-> IF key[i] \in SafeChars THEN key[i] ELSE "_"]

\* getLockPath, inside lockDir and without the .lock suffix: the sanitized key,
\* or, when that is too long, its first 20 characters and the SHA-256 of the
\* key, which is taken to tell any two keys apart.
GetLockPath(key) ==
  LET sanitized == Sanitize(key)
  IN IF Len(sanitized) > MaxFilenameLength
       THEN [name |-> SubSeq(sanitized, 1, 20), hash |-> key]
       ELSE [name |-> sanitized, hash |-> << >>]

\* a key too long for a file name
LongKey == [i \in 1..(MaxFilenameLength + 1) |-> "a"]

PathKeys ==
  {<<"a", "/", "b">>, <<"a", ":", "b">>, <<"a", "_", "b">>, <<"c">>, LongKey}

\* tryAcquire with no other call running: the exclusive create, and on EEXIST
\* the read, the unlink of an expired file and the second create
FileTryAcquire(f, path, data, t) ==
  IF ~MapHas(f, path) THEN [files |-> MapSet(f, path, data), result |-> TRUE]
  ELSE IF TaReadExpired(ReadLockFile(f, path), t)
    THEN [files |-> MapSet(MapDelete(f, path), path, data), result |-> TRUE]
    ELSE [files |-> f, result |-> FALSE]

\* release with no other call running: the read, the comparison, the unlink
FileRelease(f, path, value) ==
  IF RlMatches(ReadLockFile(f, path), value)
    THEN [files |-> MapDelete(f, path), result |-> TRUE]
    ELSE [files |-> f, result |-> FALSE]

\* history: the keys whose grants put the file that is at the path
Owners(path) == {h.key : h \in {g \in holders : GetLockPath(g.key) = path}}

PathTryAcquireCall ==
  /\ callsLeft > 0
  /\ callsLeft' = callsLeft - 1
  /\ \E key \in PathKeys, value \in Values :
       LET path == GetLockPath(key)
           data == FileData(value, 1, now)
           r == FileTryAcquire(files, path, data, now)
       IN /\ files' = r.files
          /\ holders' = IF r.result
                          THEN {h \in holders : GetLockPath(h.key) # path}
                                 \cup {Grant(key, data)}
                          ELSE holders
          /\ ret' = [op |-> "tryAcquire", key |-> key, result |-> r.result,
                     owners |-> Owners(path)]
  /\ UNCHANGED <<now, memVars, calls, lockVars>>

PathReleaseCall ==
  /\ callsLeft > 0
  /\ callsLeft' = callsLeft - 1
  /\ \E key \in PathKeys, value \in Values :
       LET path == GetLockPath(key)
           r == FileRelease(files, path, value)
       IN /\ files' = r.files
          /\ holders' = IF r.result
                          THEN {h \in holders : GetLockPath(h.key) # path}
                          ELSE holders
          /\ ret' = [op |-> "release", key |-> key, result |-> r.result,
                     owners |-> Owners(path)]
  /\ UNCHANGED <<now, memVars, calls, lockVars>>

PathTick ==
  /\ now + MsPerSecond <= Epoch + (MaxPathTicks * MsPerSecond)
  /\ now' = now + MsPerSecond
  /\ ret' = [op |-> "tick"]
  /\ UNCHANGED <<holders, memVars, fileVars, lockVars>>

InitFilePath ==
  /\ now = Epoch
  /\ ret = [op |-> "init"]
  /\ holders = {}
  /\ locks = EmptyMap
  /\ relPending = NoRelease
  /\ files = EmptyMap
  /\ calls = [p \in Procs |-> Idle]
  /\ callsLeft = MaxPathCalls
  /\ LockIdle

NextFilePath ==
  \/ PathTick
  \/ PathTryAcquireCall
  \/ PathReleaseCall

SpecFilePath == InitFilePath /\ [][NextFilePath]_vars

\* C35 (file driver): a tryAcquire(k2) is refused only when k2 itself has a
\* record, never because another key k1 is held, and a release(k2, token) that
\* removes a record removes a record of k2, never the record of another key.
C35_KeysDoNotShareRecords ==
  /\ (ret.op = "tryAcquire" /\ ~ret.result) => ret.owners = {ret.key}
  /\ (ret.op = "release" /\ ret.result) => ret.owners = {ret.key}


\* ------------------------------------- SpecMem: the claims, continued again

\* C36 (memory driver): a tryAcquire that returns false found a record of the
\* key and leaves it, and every other record, exactly as it was: same token,
\* same expiry, same creation time.
C36_RefusalLeavesRecord ==
  [][ (ret'.op = "tryAcquire" /\ ~ret'.result) =>
        /\ MapHas(locks, ret'.key)
        /\ MapHas(locks', ret'.key)
        /\ locks'[ret'.key].value = locks[ret'.key].value
        /\ locks'[ret'.key].expiresAt = locks[ret'.key].expiresAt
        /\ locks'[ret'.key].createdAt = locks[ret'.key].createdAt
        /\ locks' = locks
    ]_vars

\* a caller with another token has just been refused a key that is held and
\* live
C36_Witness ==
  /\ ret.op = "tryAcquire"
  /\ ~ret.result
  /\ ret.had = "live"
  /\ locks[ret.key].value # ret.value
  /\ Live(locks[ret.key], now)


\* ------------------------------- RedisLockDriver, SQLiteLockDriver: close

\* The constructions and the calls of close of one run.
MaxCloseCalls == 4

\* How a driver gets its handle. Redis: config.client, or a client the driver
\* creates from config.url or from host and port. SQLite: config.db, always the
\* caller's, with or without a close method.
Configs ==
  {[driver |-> "redis", source |-> "client", hasClose |-> TRUE],
   [driver |-> "redis", source |-> "url", hasClose |-> TRUE],
   [driver |-> "redis", source |-> "host", hasClose |-> TRUE],
   [driver |-> "sqlite", source |-> "db", hasClose |-> TRUE],
   [driver |-> "sqlite", source |-> "db", hasClose |-> FALSE]}

\* the handle was made by the caller and passed in
PassedIn(config) == config.source \in {"client", "db"}

\* RedisLockDriver.close: quit unless the client was passed in
RedisClose(config, handle) ==
  IF ~(config.source = "client") THEN "closed" ELSE handle

\* SQLiteLockDriver.close: close whenever the database has a close method
SQLiteClose(config, handle) ==
  IF config.hasClose THEN "closed" ELSE handle

DriverClose(config, handle) ==
  IF config.driver = "redis" THEN RedisClose(config, handle)
  ELSE SQLiteClose(config, handle)

\* new RedisLockDriver(config), new SQLiteLockDriver(config): each process has
\* a driver of its own, on a handle that is open
DriverConstruct(p) ==
  /\ calls[p].pc \in {"idle", "done"}
  /\ callsLeft > 0
  /\ callsLeft' = callsLeft - 1
  /\ \E config \in Configs :
       /\ calls' = [calls EXCEPT ![p] =
                      [pc |-> "constructed", config |-> config, handle |-> "open"]]
       /\ ret' = [op |-> "new", driver |-> config.driver]
  /\ UNCHANGED <<now, holders, memVars, files, lockVars>>

\* driver.close()
DriverCloseCall(p) ==
  /\ calls[p].pc = "constructed"
  /\ callsLeft > 0
  /\ callsLeft' = callsLeft - 1
  /\ calls' = [calls EXCEPT ![p] =
                 [pc |-> "done", config |-> calls[p].config,
                  handle |-> DriverClose(calls[p].config, calls[p].handle)]]
  /\ ret' = [op |-> "close", proc |-> p, config |-> calls[p].config,
             before |-> calls[p].handle]
  /\ UNCHANGED <<now, holders, memVars, files, lockVars>>

\* the caller closes the handle it made
CallerClosesHandle(p) ==
  /\ calls[p].pc = "constructed"
  /\ PassedIn(calls[p].config)
  /\ calls[p].handle = "open"
  /\ calls' = [calls EXCEPT ![p].handle = "closed"]
  /\ ret' = [op |-> "caller"]
  /\ UNCHANGED <<now, holders, memVars, files, callsLeft, lockVars>>

InitClose ==
  /\ now = Epoch
  /\ ret = [op |-> "init"]
  /\ holders = {}
  /\ locks = EmptyMap
  /\ relPending = NoRelease
  /\ files = EmptyMap
  /\ calls = [p \in Procs |-> Idle]
  /\ callsLeft = MaxCloseCalls
  /\ LockIdle

NextClose ==
  \E p \in Procs :
    \/ DriverConstruct(p)
    \/ DriverCloseCall(p)
    \/ CallerClosesHandle(p)

SpecClose == InitClose /\ [][NextClose]_vars

\* C37: when close() of a driver has returned, a handle that was passed in by
\* the caller and was open is still open.
C37_CloseKeepsPassedHandle ==
  (ret.op = "close" /\ PassedIn(ret.config) /\ ret.before = "open")
    => calls[ret.proc].handle = "open"


\* C38: a tryAcquire(k) that an open breaker short-circuits returns null and
\* changes nothing: no call of the driver starts, no token is minted, no lock
\* and no failure record changes, so the count, the last failure and the next
\* attempt of every key are what they were, and the breaker of k stays open no
\* longer than before.
C38_ShortCircuitChangesNothing ==
  [][ (ret'.op = "tryAcquire" /\ ret'.outcome = "open") =>
        /\ ret'.result = 0
        /\ ~ret'.thrown
        /\ \A k \in Keys :
             CircuitBreakerStats(lockFailures', k, now')
               = CircuitBreakerStats(lockFailures, k, now)
        /\ CircuitBreakerStats(lockFailures, ret'.key, now).isOpen
        /\ \A c \in Callers : inflight'[c] = inflight[c]
        /\ UNCHANGED <<now, locks, relPending, nextToken, lastCleanup, maxFailureEntries>>
    ]_vars

\* a tryAcquire has just been short-circuited, one second after the failure
\* that opened the breaker, and the next attempt is still one second ahead
C38_Witness ==
  /\ ret.op = "tryAcquire"
  /\ ret.outcome = "open"
  /\ CircuitBreakerStats(lockFailures, ret.key, now).lastFailure = Defined(now - MsPerSecond)
  /\ CircuitBreakerStats(lockFailures, ret.key, now).nextAttemptAt = Defined(now + MsPerSecond)


\* ------------------------------------- SpecApi: the claims, continued

\* C39: a withLock that gets no token, the key being held, the breaker open or
\* the driver throwing, throws the acquisition error that names the key without
\* having run its callback or called release, and neither its call of the
\* driver nor its return changes a lock record; the callback starts only with
\* a token that was acquired.
C39_WithLockFailsClean ==
  [][ /\ (ret'.op = "withLock" /\ ret'.outcome \in {"refused", "open", "threw"}) =>
           /\ ret'.thrown
           /\ ret'.error = AcquisitionFailed(ret'.key)
           /\ ret'.body = "none"
           /\ ret'.released = << >>
           /\ ret'.driverCalls = (IF ret'.outcome = "open" THEN 0 ELSE 1)
           /\ locks' = locks
      /\ \A p \in Procs :
           /\ (calls[p] = Idle /\ calls'[p].pc = "try" /\ calls'[p].op = "withLock"
                 /\ calls'[p].outcome # "acquired")
                => locks' = locks
           /\ (calls[p].pc = "try" /\ calls'[p].pc = "body")
                => /\ calls[p].outcome = "acquired"
                   /\ calls[p].token # 0
    ]_vars

\* withLock has just thrown because the key is held, live, by another token
C39_Witness ==
  /\ ret.op = "withLock"
  /\ ret.outcome = "refused"
  /\ ret.thrown
  /\ ret.body = "none"
  /\ MapHas(locks, ret.key)
  /\ Live(locks[ret.key], now)
  /\ locks[ret.key].value # ret.token


\* ------------------------------- FileLockDriver: a lock file nobody can read

\* A lock file left in lockDir by a writer that stopped between creating the
\* file and writing it, or holding content that JSON.parse rejects.
CrashedDir == MapSet(EmptyMap, LockPath("k1"), [written |-> FALSE, by |-> "crashed"])

InitFileCrash ==
  /\ now = Epoch
  /\ ret = [op |-> "init"]
  /\ holders = {}
  /\ locks = EmptyMap
  /\ relPending = NoRelease
  /\ files \in {EmptyMap, StaleDir, CrashedDir}
  /\ calls = [p \in Procs |-> Idle]
  /\ callsLeft = MaxCalls
  /\ LockIdle

SpecFileCrash == InitFileCrash /\ [][NextFileInfo]_vars

\* C40 (file driver): a tryAcquire(k) that runs with no other call in progress
\* is refused only when exists(k) answers true at that instant; so when
\* exists(k) answers false, the lock file of k being absent, expired or
\* unreadable, tryAcquire(k) returns true.
C40_ExistsAgreesWithTryAcquire ==
  [][ \A p \in Procs :
        (/\ calls[p].pc \in {"ta_create", "ta_read", "ta_unlink"}
         /\ calls'[p].pc = "done"
         /\ ~calls'[p].result
         /\ \A q \in Procs \ {p} : calls[q].pc \in {"idle", "done"})
          => FileExists(files, calls[p].key, now)
    ]_vars

====
